---- MODULE Spec2Model ----
(***************************************************************************)
(* Kirigami's virtual keyboard observers: the process-wide                 *)
(* VirtualKeyboardWatcher (src/src/libkirigami/virtualkeyboardwatcher.cpp) *)
(* and the per-instance InputMethod facade (src/src/inputmethod.cpp), with *)
(* the compositor and its D-Bus proxy as the environment.                  *)
(*                                                                         *)
(* Everything runs on the one thread that owns the event loop. A step of   *)
(* the model is one event-loop dispatch or one call into the public API;   *)
(* a signal emission that has connected slots is stepped through slot by   *)
(* slot (in connection order), and nothing else runs until it returns.     *)
(***************************************************************************)
EXTENDS Naturals, Sequences, FiniteSets

\* Bounds of the model.
NFacades == 2    \* InputMethod objects that get constructed
MaxInputs == 4   \* calls into the API and changes made by the compositor itself

Props == {"available", "enabled", "active", "visible"}
Writable == {"enabled", "active"}
FacadeSignals == {"type", "enabled", "active"}
Facades == 1..NFacades

VARIABLES
    dbus,       \* KIRIGAMI_ENABLE_DBUS is defined in this build
    comp,       \* the compositor's own virtual keyboard properties
    sigQ,       \* proxy change signals queued for dispatch: <<[prop, val], ...>>
    writeQ,     \* property writes handed to the proxy, not yet handled: <<[prop, val], ...>>
    instances,  \* VirtualKeyboardWatcher objects constructed so far
    w,          \* VirtualKeyboardWatcher::Private of the global static instance
    nf,         \* InputMethod objects constructed so far (they are 1..nf)
    f,          \* InputMethod::Private of each facade
    sub,        \* the watcher pointer each facade connected to (0: none yet)
    emit,       \* the watcher signal being emitted and the next slot to call
    op,         \* the call or dispatch last started
    wsig,       \* watcher signals emitted since op started, by property
    fsig,       \* facade signals emitted since op started, by facade and signal
    pwrites,    \* writes handed to the proxy since op started
    dirty,      \* per facade: properties whose cache was last written by a local setter
    touched,    \* facades on which setEnabled or setActive has ever been called
    lastWrite,  \* per writable property: the last write forwarded to the proxy that no
                \* change of the compositor's own has followed, as <<value>> (<<>>: no such write)
    inputs,     \* constructions, setter calls and compositor changes so far
    won         \* since op started a watcher notification replaced a differing local write

vars == <<dbus, comp, sigQ, writeQ, instances, w, nf, f, sub, emit, op, wsig, fsig,
          pwrites, dirty, touched, lastWrite, won, inputs>>

----------------------------------------------------------------------------
\* Data

WatcherPrivate ==
    [available |-> FALSE, enabled |-> FALSE, active |-> FALSE, visible |-> FALSE]

InputMethodPrivate ==
    [type |-> "NoInputMethod", enabled |-> FALSE, active |-> FALSE]

Types == {"NoInputMethod", "VirtualKeyboard", "Other"}

\* Variant: the two branches swapped.
TypeOfSwapped(available) == IF available THEN "NoInputMethod" ELSE "VirtualKeyboard"

\* Variant: no virtual keyboard is reported as some other input method.
TypeOfOther(available) == IF available THEN "VirtualKeyboard" ELSE "Other"

\* watcher->available() ? Type::VirtualKeyboard : Type::NoInputMethod
TypeOf(available) == IF available THEN "VirtualKeyboard" ELSE "NoInputMethod"

\* Variant: every call constructs and returns another object.
selfFresh(n) == [ptr |-> n + 1, instances |-> n + 1]

\* VirtualKeyboardWatcher::self(): the Q_GLOBAL_STATIC constructs its object on
\* first access and hands out a pointer to that one object ever after.
self(n) == [ptr |-> 1, instances |-> IF n = 0 THEN 1 ELSE n]

\* d->interface->available() and its siblings, read in the slot connected to
\* the proxy's change signal: the property as that signal updated it.
InterfaceRead(p) == Head(sigQ).val

----------------------------------------------------------------------------
\* Bookkeeping of what one call or dispatch emitted

NoSignals == [p \in Props |-> 0]
NoFacadeSignals == [i \in Facades |-> [s \in FacadeSignals |-> 0]]
NotEmitting == [sig |-> "none", next |-> 0]

Idle == emit = NotEmitting

\* Variant: the facades are connected to visibleChanged as well.
StartEmitAll(p) ==
    IF nf = 0 THEN NotEmitting ELSE [sig |-> p, next |-> 1]

\* Q_EMIT of a watcher signal: the facades' slots run in connection order.
\* visibleChanged has no facade slot connected.
StartEmit(p) ==
    IF p = "visible" \/ nf = 0 THEN NotEmitting ELSE [sig |-> p, next |-> 1]

\* After facade i's slot returned: the next connected slot, or the emission is over.
AfterSlot(i) == IF i >= nf THEN NotEmitting ELSE [emit EXCEPT !.next = i + 1]

Bump(cnt, k) == [cnt EXCEPT ![k] = @ + 1]

\* What is recorded of a call or dispatch: the value it carries, the value the
\* property had before it, and the object it was made on.
Started(name, p, x, old, who) ==
    [name |-> name, prop |-> p, arg |-> x, old |-> old, who |-> who]

----------------------------------------------------------------------------
Init ==
    /\ dbus \in BOOLEAN
    /\ comp \in [Props -> BOOLEAN]
    /\ sigQ = <<>>
    /\ writeQ = <<>>
    /\ instances = 0
    /\ w = WatcherPrivate
    /\ nf = 0
    /\ f = [i \in Facades |-> InputMethodPrivate]
    /\ sub = [i \in Facades |-> 0]
    /\ emit = NotEmitting
    /\ op = Started("start", "none", FALSE, FALSE, 0)
    /\ wsig = NoSignals
    /\ fsig = NoFacadeSignals
    /\ pwrites = <<>>
    /\ dirty = [i \in Facades |-> {}]
    /\ touched = {}
    /\ lastWrite = [p \in Writable |-> <<>>]
    /\ won = FALSE
    /\ inputs = 0

----------------------------------------------------------------------------
\* An input of the run: a call into the API or a change the compositor makes.
Input == inputs < MaxInputs /\ inputs' = inputs + 1

\* The record of the last forwarded write after a watcher setter's step: the
\* write it handed to the proxy, if it handed one.
Forwarded(p, x) ==
    IF writeQ' # writeQ THEN [lastWrite EXCEPT ![p] = <<x>>] ELSE lastWrite

\* A call or dispatch starts: nothing has been emitted on its behalf yet.
BeginOp(name, p, x, old, who) ==
    /\ op' = Started(name, p, x, old, who)
    /\ fsig' = NoFacadeSignals
    /\ won' = FALSE

----------------------------------------------------------------------------
\* The compositor and the proxy (the environment of the watcher)

\* The compositor changes one of its properties by itself; the proxy's change
\* signal is queued in the event loop of a process that holds a proxy.
CompositorChange(p) ==
    /\ Input
    /\ dbus /\ instances >= 1 /\ Idle
    /\ comp' = [comp EXCEPT ![p] = ~@]
    /\ sigQ' = Append(sigQ, [prop |-> p, val |-> ~comp[p]])
    /\ BeginOp("Compositor.change", p, ~comp[p], comp[p], 0)
    /\ wsig' = NoSignals /\ pwrites' = <<>>
    /\ lastWrite' = IF p \in Writable THEN [lastWrite EXCEPT ![p] = <<>>] ELSE lastWrite
    /\ UNCHANGED <<dbus, writeQ, instances, w, nf, f, sub, emit, dirty, touched>>

\* The compositor applies the oldest write; the property changes, and is
\* signalled, only when the written value differs from the one it has.
CompositorApplyWrite ==
    /\ dbus /\ Idle /\ writeQ # <<>>
    /\ LET wr == Head(writeQ) IN
        /\ BeginOp("Compositor.apply", wr.prop, wr.val, comp[wr.prop], 0)
        /\ IF comp[wr.prop] = wr.val
           THEN UNCHANGED <<comp, sigQ>>
           ELSE /\ comp' = [comp EXCEPT ![wr.prop] = wr.val]
                /\ sigQ' = Append(sigQ, [prop |-> wr.prop, val |-> wr.val])
    /\ writeQ' = Tail(writeQ)
    /\ wsig' = NoSignals /\ pwrites' = <<>>
    /\ UNCHANGED <<dbus, lastWrite, instances, w, nf, f, sub, emit, dirty, touched, inputs>>

\* The compositor refuses the oldest write: nothing changes, nothing is signalled.
CompositorIgnoreWrite ==
    /\ dbus /\ Idle /\ writeQ # <<>>
    /\ BeginOp("Compositor.ignore", Head(writeQ).prop, Head(writeQ).val,
               comp[Head(writeQ).prop], 0)
    /\ writeQ' = Tail(writeQ)
    /\ wsig' = NoSignals /\ pwrites' = <<>>
    /\ UNCHANGED <<dbus, lastWrite, comp, sigQ, instances, w, nf, f, sub, emit, dirty, touched,
                   inputs>>

----------------------------------------------------------------------------
\* VirtualKeyboardWatcher

\* The slots the constructor connects to the proxy's four change signals
\* (compiled with KIRIGAMI_ENABLE_DBUS only): copy the property, emit.
OnInterfaceAvailableChanged ==
    /\ dbus /\ Idle /\ sigQ # <<>> /\ Head(sigQ).prop = "available"
    /\ BeginOp("Interface.availableChanged", "available", Head(sigQ).val, w.available, 0)
    /\ w' = [w EXCEPT !.available = InterfaceRead("available")]
    /\ sigQ' = Tail(sigQ)
    /\ wsig' = Bump(NoSignals, "available")
    /\ emit' = StartEmit("available")
    /\ pwrites' = <<>>
    /\ UNCHANGED <<dbus, lastWrite, comp, writeQ, instances, nf, f, sub, dirty, touched, inputs>>

OnInterfaceEnabledChanged ==
    /\ dbus /\ Idle /\ sigQ # <<>> /\ Head(sigQ).prop = "enabled"
    /\ BeginOp("Interface.enabledChanged", "enabled", Head(sigQ).val, w.enabled, 0)
    /\ w' = [w EXCEPT !.enabled = InterfaceRead("enabled")]
    /\ sigQ' = Tail(sigQ)
    /\ wsig' = Bump(NoSignals, "enabled")
    /\ emit' = StartEmit("enabled")
    /\ pwrites' = <<>>
    /\ UNCHANGED <<dbus, lastWrite, comp, writeQ, instances, nf, f, sub, dirty, touched, inputs>>

OnInterfaceActiveChanged ==
    /\ dbus /\ Idle /\ sigQ # <<>> /\ Head(sigQ).prop = "active"
    /\ BeginOp("Interface.activeChanged", "active", Head(sigQ).val, w.active, 0)
    /\ w' = [w EXCEPT !.active = InterfaceRead("active")]
    /\ sigQ' = Tail(sigQ)
    /\ wsig' = Bump(NoSignals, "active")
    /\ emit' = StartEmit("active")
    /\ pwrites' = <<>>
    /\ UNCHANGED <<dbus, lastWrite, comp, writeQ, instances, nf, f, sub, dirty, touched, inputs>>

\* Variant: the visibleChanged slot was copied from the activeChanged slot and
\* still writes the active field.
OnInterfaceVisibleChangedCopied ==
    /\ dbus /\ Idle /\ sigQ # <<>> /\ Head(sigQ).prop = "visible"
    /\ BeginOp("Interface.visibleChanged", "visible", Head(sigQ).val, w.visible, 0)
    /\ w' = [w EXCEPT !.active = InterfaceRead("visible")]
    /\ sigQ' = Tail(sigQ)
    /\ wsig' = Bump(NoSignals, "visible")
    /\ emit' = StartEmit("visible")
    /\ pwrites' = <<>>
    /\ UNCHANGED <<dbus, lastWrite, comp, writeQ, instances, nf, f, sub, dirty, touched, inputs>>

OnInterfaceVisibleChanged ==
    /\ dbus /\ Idle /\ sigQ # <<>> /\ Head(sigQ).prop = "visible"
    /\ BeginOp("Interface.visibleChanged", "visible", Head(sigQ).val, w.visible, 0)
    /\ w' = [w EXCEPT !.visible = InterfaceRead("visible")]
    /\ sigQ' = Tail(sigQ)
    /\ wsig' = Bump(NoSignals, "visible")
    /\ emit' = StartEmit("visible")
    /\ pwrites' = <<>>
    /\ UNCHANGED <<dbus, lastWrite, comp, writeQ, instances, nf, f, sub, dirty, touched, inputs>>

\* Variant: setEnabled without the early return for an unchanged value.
WatcherSetEnabledNoGuard(newEnabled) ==
    /\ Input
    /\ Idle
    /\ instances' = self(instances).instances
    /\ BeginOp("Watcher.setEnabled", "enabled", newEnabled, w.enabled, self(instances).ptr)
    /\ w' = [w EXCEPT !.enabled = newEnabled]
    /\ IF dbus
       THEN /\ writeQ' = Append(writeQ, [prop |-> "enabled", val |-> newEnabled])
            /\ pwrites' = <<[prop |-> "enabled", val |-> newEnabled]>>
            /\ wsig' = NoSignals
            /\ UNCHANGED emit
       ELSE /\ wsig' = Bump(NoSignals, "enabled")
            /\ emit' = StartEmit("enabled")
            /\ pwrites' = <<>>
            /\ UNCHANGED writeQ
    /\ lastWrite' = Forwarded("enabled", newEnabled)
    /\ UNCHANGED <<dbus, comp, sigQ, nf, f, sub, dirty, touched>>

\* Variant: setEnabled emits nothing when the integration is compiled out.
WatcherSetEnabledNoEmit(newEnabled) ==
    /\ Input
    /\ Idle
    /\ instances' = self(instances).instances
    /\ BeginOp("Watcher.setEnabled", "enabled", newEnabled, w.enabled, self(instances).ptr)
    /\ wsig' = NoSignals
    /\ IF newEnabled = w.enabled
       THEN /\ pwrites' = <<>>
            /\ UNCHANGED <<w, writeQ, emit>>
       ELSE /\ w' = [w EXCEPT !.enabled = newEnabled]
            /\ IF dbus
               THEN /\ writeQ' = Append(writeQ, [prop |-> "enabled", val |-> newEnabled])
                    /\ pwrites' = <<[prop |-> "enabled", val |-> newEnabled]>>
                    /\ UNCHANGED emit
               ELSE /\ pwrites' = <<>>
                    /\ UNCHANGED <<writeQ, emit>>
    /\ lastWrite' = Forwarded("enabled", newEnabled)
    /\ UNCHANGED <<dbus, comp, sigQ, nf, f, sub, dirty, touched>>

\* Variant: setEnabled forwards the write and emits enabledChanged as well.
WatcherSetEnabledEmits(newEnabled) ==
    /\ Input
    /\ Idle
    /\ instances' = self(instances).instances
    /\ BeginOp("Watcher.setEnabled", "enabled", newEnabled, w.enabled, self(instances).ptr)
    /\ IF newEnabled = w.enabled
       THEN /\ wsig' = NoSignals /\ pwrites' = <<>>
            /\ UNCHANGED <<w, writeQ, emit>>
       ELSE /\ w' = [w EXCEPT !.enabled = newEnabled]
            /\ wsig' = Bump(NoSignals, "enabled")
            /\ emit' = StartEmit("enabled")
            /\ IF dbus
               THEN /\ writeQ' = Append(writeQ, [prop |-> "enabled", val |-> newEnabled])
                    /\ pwrites' = <<[prop |-> "enabled", val |-> newEnabled]>>
               ELSE /\ pwrites' = <<>>
                    /\ UNCHANGED writeQ
    /\ lastWrite' = Forwarded("enabled", newEnabled)
    /\ UNCHANGED <<dbus, comp, sigQ, nf, f, sub, dirty, touched>>

\* Variant: setEnabled waits for the proxy to have taken every earlier write.
WatcherSetEnabledWaits(newEnabled) ==
    /\ Input
    /\ Idle /\ writeQ = <<>>
    /\ instances' = self(instances).instances
    /\ BeginOp("Watcher.setEnabled", "enabled", newEnabled, w.enabled, self(instances).ptr)
    /\ IF newEnabled = w.enabled
       THEN /\ wsig' = NoSignals /\ pwrites' = <<>>
            /\ UNCHANGED <<w, writeQ, emit>>
       ELSE /\ w' = [w EXCEPT !.enabled = newEnabled]
            /\ IF dbus
               THEN /\ writeQ' = Append(writeQ, [prop |-> "enabled", val |-> newEnabled])
                    /\ pwrites' = <<[prop |-> "enabled", val |-> newEnabled]>>
                    /\ wsig' = NoSignals
                    /\ UNCHANGED emit
               ELSE /\ wsig' = Bump(NoSignals, "enabled")
                    /\ emit' = StartEmit("enabled")
                    /\ pwrites' = <<>>
                    /\ UNCHANGED writeQ
    /\ lastWrite' = Forwarded("enabled", newEnabled)
    /\ UNCHANGED <<dbus, comp, sigQ, nf, f, sub, dirty, touched>>

\* VirtualKeyboardWatcher::self()->setEnabled(newEnabled)
WatcherSetEnabled(newEnabled) ==
    /\ Input
    /\ Idle
    /\ instances' = self(instances).instances
    /\ BeginOp("Watcher.setEnabled", "enabled", newEnabled, w.enabled, self(instances).ptr)
    /\ IF newEnabled = w.enabled
       THEN /\ wsig' = NoSignals /\ pwrites' = <<>>
            /\ UNCHANGED <<w, writeQ, emit>>
       ELSE /\ w' = [w EXCEPT !.enabled = newEnabled]
            /\ IF dbus
               THEN /\ writeQ' = Append(writeQ, [prop |-> "enabled", val |-> newEnabled])
                    /\ pwrites' = <<[prop |-> "enabled", val |-> newEnabled]>>
                    /\ wsig' = NoSignals
                    /\ UNCHANGED emit
               ELSE /\ wsig' = Bump(NoSignals, "enabled")
                    /\ emit' = StartEmit("enabled")
                    /\ pwrites' = <<>>
                    /\ UNCHANGED writeQ
    /\ lastWrite' = Forwarded("enabled", newEnabled)
    /\ UNCHANGED <<dbus, comp, sigQ, nf, f, sub, dirty, touched>>

\* Variant: setActive emits nothing when the integration is compiled out.
WatcherSetActiveNoEmit(newActive) ==
    /\ Input
    /\ Idle
    /\ instances' = self(instances).instances
    /\ BeginOp("Watcher.setActive", "active", newActive, w.active, self(instances).ptr)
    /\ wsig' = NoSignals
    /\ IF newActive = w.active
       THEN /\ pwrites' = <<>>
            /\ UNCHANGED <<w, writeQ, emit>>
       ELSE /\ w' = [w EXCEPT !.active = newActive]
            /\ IF dbus
               THEN /\ writeQ' = Append(writeQ, [prop |-> "active", val |-> newActive])
                    /\ pwrites' = <<[prop |-> "active", val |-> newActive]>>
                    /\ UNCHANGED emit
               ELSE /\ pwrites' = <<>>
                    /\ UNCHANGED <<writeQ, emit>>
    /\ lastWrite' = Forwarded("active", newActive)
    /\ UNCHANGED <<dbus, comp, sigQ, nf, f, sub, dirty, touched>>

\* Variant: setActive does nothing while no virtual keyboard is available.
WatcherSetActiveGated(newActive) ==
    /\ Input
    /\ Idle
    /\ instances' = self(instances).instances
    /\ BeginOp("Watcher.setActive", "active", newActive, w.active, self(instances).ptr)
    /\ IF newActive = w.active \/ ~w.available
       THEN /\ wsig' = NoSignals /\ pwrites' = <<>>
            /\ UNCHANGED <<w, writeQ, emit>>
       ELSE /\ w' = [w EXCEPT !.active = newActive]
            /\ IF dbus
               THEN /\ writeQ' = Append(writeQ, [prop |-> "active", val |-> newActive])
                    /\ pwrites' = <<[prop |-> "active", val |-> newActive]>>
                    /\ wsig' = NoSignals
                    /\ UNCHANGED emit
               ELSE /\ wsig' = Bump(NoSignals, "active")
                    /\ emit' = StartEmit("active")
                    /\ pwrites' = <<>>
                    /\ UNCHANGED writeQ
    /\ lastWrite' = Forwarded("active", newActive)
    /\ UNCHANGED <<dbus, comp, sigQ, nf, f, sub, dirty, touched>>

\* VirtualKeyboardWatcher::self()->setActive(newActive)
WatcherSetActive(newActive) ==
    /\ Input
    /\ Idle
    /\ instances' = self(instances).instances
    /\ BeginOp("Watcher.setActive", "active", newActive, w.active, self(instances).ptr)
    /\ IF newActive = w.active
       THEN /\ wsig' = NoSignals /\ pwrites' = <<>>
            /\ UNCHANGED <<w, writeQ, emit>>
       ELSE /\ w' = [w EXCEPT !.active = newActive]
            /\ IF dbus
               THEN /\ writeQ' = Append(writeQ, [prop |-> "active", val |-> newActive])
                    /\ pwrites' = <<[prop |-> "active", val |-> newActive]>>
                    /\ wsig' = NoSignals
                    /\ UNCHANGED emit
               ELSE /\ wsig' = Bump(NoSignals, "active")
                    /\ emit' = StartEmit("active")
                    /\ pwrites' = <<>>
                    /\ UNCHANGED writeQ
    /\ lastWrite' = Forwarded("active", newActive)
    /\ UNCHANGED <<dbus, comp, sigQ, nf, f, sub, dirty, touched>>

----------------------------------------------------------------------------
\* InputMethod

\* Variant: the constructor connects but leaves the cache at its defaults.
ConstructNoRead ==
    /\ Input
    /\ Idle /\ nf < NFacades
    /\ LET i == nf + 1
           watcher == self(instances)
       IN /\ instances' = watcher.instances
          /\ nf' = i
          /\ sub' = [sub EXCEPT ![i] = watcher.ptr]
          /\ f' = [f EXCEPT ![i] = InputMethodPrivate]
          /\ BeginOp("InputMethod", "none", FALSE, FALSE, i)
    /\ wsig' = NoSignals /\ pwrites' = <<>>
    /\ UNCHANGED <<dbus, lastWrite, comp, sigQ, writeQ, w, emit, dirty, touched>>

\* InputMethod::InputMethod: connect to the watcher's three signals, then read it.
Construct ==
    /\ Input
    /\ Idle /\ nf < NFacades
    /\ LET i == nf + 1
           watcher == self(instances)
       IN /\ instances' = watcher.instances
          /\ nf' = i
          /\ sub' = [sub EXCEPT ![i] = watcher.ptr]
          /\ f' = [f EXCEPT ![i] = [type |-> TypeOf(w.available),
                                    enabled |-> w.enabled,
                                    active |-> w.active]]
          /\ BeginOp("InputMethod", "none", FALSE, FALSE, i)
    /\ wsig' = NoSignals /\ pwrites' = <<>>
    /\ UNCHANGED <<dbus, lastWrite, comp, sigQ, writeQ, w, emit, dirty, touched>>

\* Variant: the slot re-emits typeChanged without recomputing the type.
OnAvailableChangedStale ==
    /\ emit.sig = "available"
    /\ LET i == emit.next IN
        /\ fsig' = [fsig EXCEPT ![i].type = @ + 1]
        /\ emit' = AfterSlot(i)
    /\ instances' = self(instances).instances
    /\ UNCHANGED <<dbus, lastWrite, comp, sigQ, writeQ, w, nf, f, sub, op, wsig, pwrites,
                   dirty, touched, won, inputs>>

\* The slot connected to the watcher's availableChanged, run for the facade
\* whose turn it is in the emission.
OnAvailableChanged ==
    /\ emit.sig = "available"
    /\ LET i == emit.next IN
        /\ f' = [f EXCEPT ![i].type = TypeOf(w.available)]
        /\ fsig' = [fsig EXCEPT ![i].type = @ + 1]
        /\ emit' = AfterSlot(i)
    /\ instances' = self(instances).instances
    /\ UNCHANGED <<dbus, lastWrite, comp, sigQ, writeQ, w, nf, sub, op, wsig, pwrites, dirty,
                   touched, won, inputs>>

\* Variant: the slot emits the facade's enabledChanged with the cache not written.
OnEnabledChangedEmitFirst ==
    /\ emit.sig = "enabled"
    /\ LET i == emit.next IN
        /\ fsig' = [fsig EXCEPT ![i].enabled = @ + 1]
        /\ emit' = AfterSlot(i)
    /\ instances' = self(instances).instances
    /\ UNCHANGED <<dbus, lastWrite, comp, sigQ, writeQ, w, nf, f, sub, op, wsig, pwrites, dirty,
                   touched, won, inputs>>

\* Variant: the enabledChanged slot was copied from the activeChanged slot and
\* still reads the watcher's active().
OnEnabledChangedReadsActive ==
    /\ emit.sig = "enabled"
    /\ LET i == emit.next IN
        /\ f' = [f EXCEPT ![i].enabled = w.active]
        /\ fsig' = [fsig EXCEPT ![i].enabled = @ + 1]
        /\ emit' = AfterSlot(i)
        /\ dirty' = [dirty EXCEPT ![i] = @ \ {"enabled"}]
        /\ UNCHANGED touched
        /\ won' = (won \/ ("enabled" \in dirty[i] /\ f[i].enabled # w.enabled))
    /\ instances' = self(instances).instances
    /\ UNCHANGED <<dbus, lastWrite, comp, sigQ, writeQ, w, nf, sub, op, wsig, pwrites, inputs>>

\* The slot connected to the watcher's enabledChanged.
OnEnabledChanged ==
    /\ emit.sig = "enabled"
    /\ LET i == emit.next IN
        /\ f' = [f EXCEPT ![i].enabled = w.enabled]
        /\ fsig' = [fsig EXCEPT ![i].enabled = @ + 1]
        /\ emit' = AfterSlot(i)
        /\ dirty' = [dirty EXCEPT ![i] = @ \ {"enabled"}]
        /\ UNCHANGED touched
        /\ won' = (won \/ ("enabled" \in dirty[i] /\ f[i].enabled # w.enabled))
    /\ instances' = self(instances).instances
    /\ UNCHANGED <<dbus, lastWrite, comp, sigQ, writeQ, w, nf, sub, op, wsig, pwrites, inputs>>

\* Variant: the slot keeps a value the facade's own setter wrote.
OnActiveChangedKeepLocal ==
    /\ emit.sig = "active"
    /\ LET i == emit.next IN
        /\ f' = IF "active" \in dirty[i] THEN f ELSE [f EXCEPT ![i].active = w.active]
        /\ fsig' = [fsig EXCEPT ![i].active = @ + 1]
        /\ emit' = AfterSlot(i)
        /\ won' = (won \/ ("active" \in dirty[i] /\ f[i].active # w.active))
    /\ instances' = self(instances).instances
    /\ UNCHANGED <<dbus, lastWrite, comp, sigQ, writeQ, w, nf, sub, op, wsig, pwrites, dirty,
                   touched, inputs>>

\* Variant: the slot hands the value it copied back to the proxy.
OnActiveChangedWritesBack ==
    /\ emit.sig = "active"
    /\ LET i == emit.next IN
        /\ f' = [f EXCEPT ![i].active = w.active]
        /\ fsig' = [fsig EXCEPT ![i].active = @ + 1]
        /\ emit' = AfterSlot(i)
        /\ dirty' = [dirty EXCEPT ![i] = @ \ {"active"}]
        /\ UNCHANGED touched
        /\ won' = (won \/ ("active" \in dirty[i] /\ f[i].active # w.active))
    /\ instances' = self(instances).instances
    /\ writeQ' = Append(writeQ, [prop |-> "active", val |-> w.active])
    /\ pwrites' = Append(pwrites, [prop |-> "active", val |-> w.active])
    /\ UNCHANGED <<dbus, lastWrite, comp, sigQ, w, nf, sub, op, wsig, inputs>>

\* The slot connected to the watcher's activeChanged.
OnActiveChanged ==
    /\ emit.sig = "active"
    /\ LET i == emit.next IN
        /\ f' = [f EXCEPT ![i].active = w.active]
        /\ fsig' = [fsig EXCEPT ![i].active = @ + 1]
        /\ emit' = AfterSlot(i)
        /\ dirty' = [dirty EXCEPT ![i] = @ \ {"active"}]
        /\ UNCHANGED touched
        /\ won' = (won \/ ("active" \in dirty[i] /\ f[i].active # w.active))
    /\ instances' = self(instances).instances
    /\ UNCHANGED <<dbus, lastWrite, comp, sigQ, writeQ, w, nf, sub, op, wsig, pwrites, inputs>>

\* Variant: the facade's setter also writes the watcher's field.
SetEnabledForwards(i, newEnabled) ==
    /\ Input
    /\ Idle /\ i <= nf
    /\ op' = Started("InputMethod.setEnabled", "enabled", newEnabled, f[i].enabled, i)
    /\ won' = FALSE
    /\ touched' = touched \cup {i}
    /\ IF newEnabled = f[i].enabled
       THEN /\ fsig' = NoFacadeSignals
            /\ UNCHANGED <<f, dirty, w>>
       ELSE /\ f' = [f EXCEPT ![i].enabled = newEnabled]
            /\ fsig' = [NoFacadeSignals EXCEPT ![i].enabled = 1]
            /\ dirty' = [dirty EXCEPT ![i] = @ \cup {"enabled"}]
            /\ w' = [w EXCEPT !.enabled = newEnabled]
    /\ wsig' = NoSignals /\ pwrites' = <<>>
    /\ UNCHANGED <<dbus, lastWrite, comp, sigQ, writeQ, instances, nf, sub, emit>>

\* InputMethod::setEnabled on facade i
SetEnabled(i, newEnabled) ==
    /\ Input
    /\ Idle /\ i <= nf
    /\ op' = Started("InputMethod.setEnabled", "enabled", newEnabled, f[i].enabled, i)
    /\ won' = FALSE
    /\ touched' = touched \cup {i}
    /\ IF newEnabled = f[i].enabled
       THEN /\ fsig' = NoFacadeSignals
            /\ UNCHANGED <<f, dirty>>
       ELSE /\ f' = [f EXCEPT ![i].enabled = newEnabled]
            /\ fsig' = [NoFacadeSignals EXCEPT ![i].enabled = 1]
            /\ dirty' = [dirty EXCEPT ![i] = @ \cup {"enabled"}]
    /\ wsig' = NoSignals /\ pwrites' = <<>>
    /\ UNCHANGED <<dbus, lastWrite, comp, sigQ, writeQ, instances, w, nf, sub, emit>>

\* Variant: setActive without the early return for an unchanged value.
SetActiveNoGuard(i, newActive) ==
    /\ Input
    /\ Idle /\ i <= nf
    /\ op' = Started("InputMethod.setActive", "active", newActive, f[i].active, i)
    /\ won' = FALSE
    /\ touched' = touched \cup {i}
    /\ f' = [f EXCEPT ![i].active = newActive]
    /\ fsig' = [NoFacadeSignals EXCEPT ![i].active = 1]
    /\ dirty' = [dirty EXCEPT ![i] = @ \cup {"active"}]
    /\ wsig' = NoSignals /\ pwrites' = <<>>
    /\ UNCHANGED <<dbus, lastWrite, comp, sigQ, writeQ, instances, w, nf, sub, emit>>

\* InputMethod::setActive on facade i
SetActive(i, newActive) ==
    /\ Input
    /\ Idle /\ i <= nf
    /\ op' = Started("InputMethod.setActive", "active", newActive, f[i].active, i)
    /\ won' = FALSE
    /\ touched' = touched \cup {i}
    /\ IF newActive = f[i].active
       THEN /\ fsig' = NoFacadeSignals
            /\ UNCHANGED <<f, dirty>>
       ELSE /\ f' = [f EXCEPT ![i].active = newActive]
            /\ fsig' = [NoFacadeSignals EXCEPT ![i].active = 1]
            /\ dirty' = [dirty EXCEPT ![i] = @ \cup {"active"}]
    /\ wsig' = NoSignals /\ pwrites' = <<>>
    /\ UNCHANGED <<dbus, lastWrite, comp, sigQ, writeQ, instances, w, nf, sub, emit>>

----------------------------------------------------------------------------
\* The program's steps, with a compositor that applies every write it is sent.
Steps ==
    \/ \E p \in Props : CompositorChange(p)
    \/ CompositorApplyWrite
    \/ OnInterfaceAvailableChanged
    \/ OnInterfaceEnabledChanged
    \/ OnInterfaceActiveChanged
    \/ OnInterfaceVisibleChanged
    \/ \E x \in BOOLEAN : WatcherSetEnabled(x)
    \/ \E x \in BOOLEAN : WatcherSetActive(x)
    \/ Construct
    \/ OnAvailableChanged
    \/ OnEnabledChanged
    \/ OnActiveChanged
    \/ \E i \in Facades, x \in BOOLEAN : SetEnabled(i, x)
    \/ \E i \in Facades, x \in BOOLEAN : SetActive(i, x)

\* A compositor may also refuse a write.
Next == Steps \/ CompositorIgnoreWrite

Spec == Init /\ [][Next]_vars

\* The same program with a compositor that refuses no write.
SpecApplies == Init /\ [][Steps]_vars

----------------------------------------------------------------------------
----------------------------------------------------------------------------
\* The integration is compiled in but the proxy's connection failed: the proxy
\* delivers no signal and drops every write handed to it.

\* The failed proxy drops the oldest write.
ProxyDropWrite ==
    /\ dbus /\ Idle /\ writeQ # <<>>
    /\ BeginOp("Proxy.drop", Head(writeQ).prop, Head(writeQ).val, w[Head(writeQ).prop], 0)
    /\ writeQ' = Tail(writeQ)
    /\ wsig' = NoSignals /\ pwrites' = <<>>
    /\ UNCHANGED <<dbus, lastWrite, comp, sigQ, instances, w, nf, f, sub, emit, dirty, touched,
                   inputs>>

\* What still runs: the calls into the API; no slot of the watcher is ever
\* invoked, so no slot of a facade is either.
StepsFailed ==
    \/ ProxyDropWrite
    \/ \E x \in BOOLEAN : WatcherSetEnabled(x)
    \/ \E x \in BOOLEAN : WatcherSetActive(x)
    \/ Construct
    \/ \E i \in Facades, x \in BOOLEAN : SetEnabled(i, x)
    \/ \E i \in Facades, x \in BOOLEAN : SetActive(i, x)

\* The build has the integration.
InitFailed == Init /\ dbus

SpecFailed == InitFailed /\ [][StepsFailed]_vars

\* Vocabulary of the properties

\* A step that is a call of one of the named operations (not a later step of
\* the emission the call started).
Called(names) == inputs' # inputs /\ op'.name \in names

\* Nothing is queued for dispatch, handed to the proxy, or being emitted.
Quiescent == Idle /\ sigQ = <<>> /\ writeQ = <<>>

WatcherSetters == {"Watcher.setEnabled", "Watcher.setActive"}
FacadeSetters == {"InputMethod.setEnabled", "InputMethod.setActive"}
InterfaceSlots == {"Interface.availableChanged", "Interface.enabledChanged",
                   "Interface.activeChanged", "Interface.visibleChanged"}

----------------------------------------------------------------------------
\* C1: between two event-loop dispatches every facade's type() is
\* VirtualKeyboard exactly when the watcher's available() is true and
\* NoInputMethod otherwise, and once an availableChanged of the proxy has been
\* processed the watcher's available() is the value that notification carried.
C1_TypeFollowsAvailable ==
    Idle =>
        /\ \A i \in 1..nf :
            /\ f[i].type \in {"VirtualKeyboard", "NoInputMethod"}
            /\ f[i].type = "VirtualKeyboard" <=> w.available
        /\ op.name = "Interface.availableChanged" => w.available = op.arg

\* Two facades, after the notification of available = true has been processed.
C1_Witness ==
    /\ Idle /\ op.name = "Interface.availableChanged" /\ op.arg /\ ~op.old
    /\ nf = 2 /\ f[1].type = "VirtualKeyboard" /\ f[2].type = "VirtualKeyboard"

\* C2: in both build modes a watcher setEnabled(x) with enabled() = x, or
\* setActive(x) with active() = x, emits no notification, hands no write to
\* the proxy and leaves the four watcher fields as they were.
C2_SetterIdempotent ==
    [][(Called(WatcherSetters) /\ op'.arg = w[op'.prop]) =>
          /\ w' = w
          /\ wsig' = NoSignals /\ fsig' = NoFacadeSignals
          /\ pwrites' = <<>> /\ writeQ' = writeQ /\ sigQ' = sigQ
          /\ emit' = NotEmitting /\ f' = f]_vars

\* setEnabled(true) was called on a watcher that was enabled already, with a
\* facade connected, in a build with the integration.
C2_Witness ==
    /\ dbus /\ nf >= 1
    /\ op.name = "Watcher.setEnabled" /\ op.arg /\ op.old
    /\ wsig = NoSignals /\ pwrites = <<>>

\* C3: a facade that has just been constructed reports the type derived from
\* the watcher's available() and the watcher's enabled() and active(), and no
\* notification was emitted to get there.
C3_ConstructionSeedsCache ==
    op.name = "InputMethod" =>
        /\ f[op.who] = [type |-> TypeOf(w.available), enabled |-> w.enabled,
                        active |-> w.active]
        /\ wsig = NoSignals /\ fsig = NoFacadeSignals /\ Idle

\* The scenario of the specification: available and enabled, not active.
C3_Witness ==
    /\ op.name = "InputMethod"
    /\ w.available /\ w.enabled /\ ~w.active /\ ~w.visible
    /\ f[op.who] = [type |-> "VirtualKeyboard", enabled |-> TRUE, active |-> FALSE]

\* C4: without the integration, a watcher setEnabled or setActive that changes
\* the value has the getter return the new value at once and emits exactly one
\* change notification of that property (and no other) by the time it returns.
C4_DegradedSetterNotifies ==
    (~dbus /\ op.name \in WatcherSetters /\ op.arg # op.old) =>
        /\ w[op.prop] = op.arg
        /\ wsig = Bump(NoSignals, op.prop)
        /\ pwrites = <<>> /\ writeQ = <<>>

\* setEnabled(true) on a watcher that was not enabled has returned, with a
\* facade connected.
C4_Witness ==
    /\ ~dbus /\ Idle /\ nf >= 1
    /\ op.name = "Watcher.setEnabled" /\ op.arg /\ ~op.old
    /\ w.enabled /\ wsig["enabled"] = 1

\* C5: without the integration the watcher's available() and visible() are
\* false in every state and every facade's type() is NoInputMethod.
C5_DegradedNeverAvailable ==
    ~dbus =>
        /\ ~w.available /\ ~w.visible
        /\ \A i \in Facades : f[i].type = "NoInputMethod"

\* The compositor does have a virtual keyboard, both facades exist and the
\* watcher's two writable flags have been set.
C5_Witness ==
    /\ ~dbus /\ comp["available"] /\ comp["visible"]
    /\ nf = 2 /\ w.enabled /\ w.active /\ Idle

\* C6: once the watcher's enabledChanged (activeChanged) has been delivered to
\* a facade, that facade's enabled() (active()) is the watcher's value,
\* whatever the facade's own setter wrote before.
C6_WatcherUpdateWins ==
    \A p \in Writable, i \in 1..nf :
        (wsig[p] > 0 /\ (Idle \/ i < emit.next)) => f[i][p] = w[p]

\* The scenario of the specification: the facade's setActive(true), then an
\* activeChanged of the watcher whose value is false.
C6_Witness ==
    /\ Idle /\ won /\ nf >= 1
    /\ op.name = "Interface.activeChanged" /\ ~op.arg
    /\ ~f[1].active /\ ~w.active

\* C7: with the integration, a watcher setEnabled or setActive that changes the
\* value has the getter return the new value at once, hands exactly that one
\* write to the proxy and emits nothing; a watcher notification is emitted
\* only in the slot connected to the proxy's signal of the same property.
C7_IntegrationSetterDefers ==
    dbus =>
        /\ (op.name \in WatcherSetters /\ op.arg # op.old) =>
              /\ w[op.prop] = op.arg
              /\ pwrites = <<[prop |-> op.prop, val |-> op.arg]>>
              /\ writeQ # <<>> /\ writeQ[Len(writeQ)] = [prop |-> op.prop, val |-> op.arg]
              /\ wsig = NoSignals /\ fsig = NoFacadeSignals /\ Idle
        /\ \A p \in Props : wsig[p] > 0 => (op.name \in InterfaceSlots /\ op.prop = p)

\* setEnabled(true) has returned and a facade constructed before it still
\* reports enabled() = false.
C7_Witness ==
    /\ dbus /\ nf >= 1
    /\ op.name = "Watcher.setEnabled" /\ op.arg /\ ~op.old
    /\ w.enabled /\ ~f[1].enabled /\ sub[1] = 1

\* C8: in both build modes, when nothing is pending (no notification to
\* dispatch, no write to handle, no emission under way), every facade whose
\* enabled (active) cache was not last written by its own setter reports the
\* watcher's enabled() (active()).
C8_CachesConverge ==
    Quiescent =>
        \A i \in 1..nf, p \in Writable : p \notin dirty[i] => f[i][p] = w[p]

\* C9: a facade's setEnabled or setActive leaves the watcher's four fields, the
\* proxy and the event queue as they were, emits no watcher notification, and
\* leaves every other facade's cache and signals untouched.
C9_FacadeSettersAreLocal ==
    [][Called(FacadeSetters) =>
          /\ w' = w /\ comp' = comp /\ writeQ' = writeQ /\ sigQ' = sigQ
          /\ emit' = emit /\ instances' = instances
          /\ wsig' = NoSignals /\ pwrites' = <<>>
          /\ \A j \in Facades :
                j # op'.who => (f'[j] = f[j] /\ fsig'[j] = NoFacadeSignals[j])]_vars

\* Facade 1's setEnabled(true) has changed its cache; the watcher and the other
\* facade still report false and nothing was handed to the proxy.
C9_Witness ==
    /\ dbus /\ nf = 2
    /\ op.name = "InputMethod.setEnabled" /\ op.who = 1 /\ op.arg /\ ~op.old
    /\ f[1].enabled /\ ~f[2].enabled /\ ~w.enabled /\ writeQ = <<>>

\* C10: at most one watcher object is ever constructed, every facade is
\* connected to the object self() returns, a watcher setter is called on that
\* same object, and the value it wrote is what the getter returns through it.
C10_SingletonIdentity ==
    /\ instances <= 1
    /\ \A i \in 1..nf : sub[i] = self(instances).ptr
    /\ \A i, j \in 1..nf : sub[i] = sub[j]
    /\ op.name \in WatcherSetters =>
          /\ \A i \in 1..nf : sub[i] = op.who
          /\ w[op.prop] = op.arg

\* Two facades and a caller of setEnabled(true) all hold the one object.
C10_Witness ==
    /\ Idle /\ nf = 2 /\ instances = 1 /\ sub[1] = 1 /\ sub[2] = 1
    /\ op.name = "Watcher.setEnabled" /\ op.who = 1 /\ op.arg /\ ~op.old /\ w.enabled

----------------------------------------------------------------------------
\* C11 as stated: without the integration the four watcher properties are
\* false and every facade holds its defaults, whatever setters were called.
C11_AllInert ==
    ~dbus => (w = WatcherPrivate /\ \A i \in Facades : f[i] = InputMethodPrivate)

\* C11: without the integration available() and visible() stay false and
\* every facade's type stays NoInputMethod, nothing is ever queued or handed
\* to a proxy, and enabled/active are plain in-memory flags: the watcher holds
\* what its setter last wrote, and between calls every facade that did not
\* overwrite its own copy holds the watcher's value.
C11_DegradedFlagsInMemory ==
    ~dbus =>
        /\ ~w.available /\ ~w.visible
        /\ \A i \in Facades : f[i].type = "NoInputMethod"
        /\ sigQ = <<>> /\ writeQ = <<>> /\ pwrites = <<>>
        /\ op.name \in WatcherSetters => w[op.prop] = op.arg
        /\ Idle => \A i \in 1..nf : \A p \in Writable :
                      p \notin dirty[i] => f[i][p] = w[p]

\* Without the integration setActive(true) has been called on the watcher and
\* both facades have taken the value over, with the type still NoInputMethod.
C11_Witness ==
    /\ ~dbus /\ Idle /\ nf = 2
    /\ op.name = "Watcher.setActive" /\ op.arg /\ ~op.old
    /\ w.active /\ f[1].active /\ f[2].active
    /\ ~w.available /\ f[1].type = "NoInputMethod"

----------------------------------------------------------------------------
\* C12: with the integration compiled in and a failed proxy connection, the
\* four watcher getters return false and every facade reports NoInputMethod,
\* false, false, whatever watcher setters were called (no facade setter was).
C12_FailedProxyInert ==
    touched = {} => (w = WatcherPrivate /\ \A i \in Facades : f[i] = InputMethodPrivate)

----------------------------------------------------------------------------
\* C13: in every reachable state, also in the middle of an emission, every
\* facade's type() is NoInputMethod or VirtualKeyboard, never Other.
C13_NeverOther ==
    \A i \in Facades : f[i].type \in Types \ {"Other"}

\* After a facade setter was used, the watcher's availableChanged is being
\* emitted: facade 1 has become VirtualKeyboard, facade 2 is NoInputMethod still.
C13_Witness ==
    /\ nf = 2 /\ touched # {}
    /\ emit.sig = "available" /\ emit.next = 2
    /\ f[1].type = "VirtualKeyboard" /\ f[2].type = "NoInputMethod"

----------------------------------------------------------------------------
\* C14: with the integration, from the construction of the watcher on and
\* whenever no proxy notification awaits dispatch, available() is the
\* compositor's available and visible() is the compositor's visible.
C14_ReflectsCompositor ==
    (dbus /\ instances >= 1 /\ Idle /\ sigQ = <<>>) =>
        (w.available = comp["available"] /\ w.visible = comp["visible"])

----------------------------------------------------------------------------
\* C15: with the integration, once the compositor has handled the write a
\* watcher setEnabled(x) or setActive(x) forwarded and every write and proxy
\* notification has been delivered, the watcher's enabled() (active()) is the
\* compositor's value, whether the compositor applied the write or ignored it.
C15_CompositorIsTruth ==
    (dbus /\ Quiescent /\ op.name \in {"Compositor.apply", "Compositor.ignore"})
        => w[op.prop] = comp[op.prop]

----------------------------------------------------------------------------
\* C16: where a listener of a facade's typeChanged, enabledChanged or
\* activeChanged signal runs (the slot of that facade has just written and
\* emitted; with several facades the later ones' slots have not run yet),
\* every facade on which no setter was ever called holds the watcher's
\* current values: its type follows available(), its enabled and active are
\* the watcher's.
C16_NoPartialUpdate ==
    emit.next >= 2 =>
        \A i \in 1..nf :
            i \notin touched =>
                /\ f[i].type = TypeOf(w.available)
                /\ f[i].enabled = w.enabled
                /\ f[i].active = w.active

----------------------------------------------------------------------------
\* The watcher field each proxy callback is named for.
SlotField(name) ==
    CASE name = "Interface.availableChanged" -> "available"
      [] name = "Interface.enabledChanged" -> "enabled"
      [] name = "Interface.activeChanged" -> "active"
      [] name = "Interface.visibleChanged" -> "visible"

\* A step that is the dispatch of a proxy change signal to the watcher's slot.
Dispatched == sigQ # <<>> /\ sigQ' = Tail(sigQ) /\ op'.name \in InterfaceSlots

\* C17: a proxy callback changes no watcher field but the one it is named
\* for, sets that one to the notified value and emits that one watcher signal
\* once and no other; a watcher setEnabled changes no field but enabled, a
\* setActive none but active; and available and visible change in no step
\* that is not their own proxy callback (no setter, no facade operation).
C17_IndependentFlags ==
    [][/\ Dispatched =>
            /\ \A p \in Props \ {SlotField(op'.name)} : w'[p] = w[p]
            /\ w'[SlotField(op'.name)] = op'.arg
            /\ wsig' = Bump(NoSignals, SlotField(op'.name))
       /\ Called({"Watcher.setEnabled"}) => \A p \in Props \ {"enabled"} : w'[p] = w[p]
       /\ Called({"Watcher.setActive"}) => \A p \in Props \ {"active"} : w'[p] = w[p]
       /\ w'.available # w.available =>
            (Dispatched /\ op'.name = "Interface.availableChanged")
       /\ w'.visible # w.visible =>
            (Dispatched /\ op'.name = "Interface.visibleChanged")]_vars

\* The visibleChanged callback has set visible to true and emitted
\* visibleChanged once, while enabled (set through the setter earlier) is true
\* and available and active are false.
C17_Witness ==
    /\ op.name = "Interface.visibleChanged" /\ op.arg /\ ~op.old
    /\ w.visible /\ w.enabled /\ ~w.available /\ ~w.active
    /\ wsig = Bump(NoSignals, "visible") /\ nf >= 1

----------------------------------------------------------------------------
\* C18: no flag is a precondition of another. In either build mode, whenever
\* a call can be made while available() is false, the watcher's setEnabled(x)
\* and setActive(x) can be called and leave enabled() (active()) equal to x,
\* true included, with available() still false; and on every facade whose
\* type() is NoInputMethod, setEnabled(x) and setActive(x) leave its enabled()
\* (active()) equal to x with its type() still NoInputMethod.
C18_NoOrderingEnforced ==
    (Idle /\ inputs < MaxInputs) =>
        \A x \in BOOLEAN :
            /\ ~w.available =>
                /\ ENABLED (WatcherSetEnabled(x) /\ w'.enabled = x /\ ~w'.available)
                /\ ENABLED (WatcherSetActive(x) /\ w'.active = x /\ ~w'.available)
            /\ \A i \in 1..nf :
                f[i].type = "NoInputMethod" =>
                    /\ ENABLED (SetEnabled(i, x) /\ f'[i].enabled = x
                                /\ f'[i].type = "NoInputMethod")
                    /\ ENABLED (SetActive(i, x) /\ f'[i].active = x
                                /\ f'[i].type = "NoInputMethod")

\* With the integration: the watcher reports enabled and active while no
\* virtual keyboard is available, and facade 1, of type NoInputMethod, has
\* been made active by its own setter while facade 2 reports enabled.
C18_Witness ==
    /\ dbus /\ w.enabled /\ ~w.available /\ nf = 2
    /\ op.name = "InputMethod.setActive" /\ op.who = 1 /\ op.arg /\ ~op.old
    /\ f[1].active /\ f[1].type = "NoInputMethod"
    /\ f[2].enabled /\ f[2].type = "NoInputMethod"

----------------------------------------------------------------------------
\* What a facade's getter returns for the watcher property its signal mirrors.
Mirrored(i, s) ==
    CASE s = "type" -> f[i].type = TypeOf(w.available)
      [] s = "enabled" -> f[i].enabled = w.enabled
      [] s = "active" -> f[i].active = w.active

\* C19: whenever a facade has emitted a signal in the course of a watcher
\* notification (a proxy callback, or a watcher setter without the
\* integration), the watcher has emitted its own signal of that property once,
\* the watcher's getter returns the new value, and that facade's getter
\* returns the value the watcher's getter returns: what a listener inside the
\* facade's signal reads is new on both.
C19_WriteBeforeEmit ==
    op.name \in InterfaceSlots \cup WatcherSetters =>
        \A i \in Facades : \A s \in FacadeSignals :
            fsig[i][s] > 0 =>
                /\ wsig[op.prop] = 1
                /\ w[op.prop] = op.arg
                /\ s = (IF op.prop = "available" THEN "type" ELSE op.prop)
                /\ Mirrored(i, s)

\* The proxy's availableChanged(true) is being handled: the watcher has
\* written and emitted, facade 1 has written VirtualKeyboard and emitted
\* typeChanged, facade 2's slot has not run yet.
C19_Witness ==
    /\ op.name = "Interface.availableChanged" /\ op.arg /\ ~op.old
    /\ nf = 2 /\ emit.sig = "available" /\ emit.next = 2
    /\ fsig[1].type = 1 /\ fsig[2].type = 0
    /\ w.available /\ f[1].type = "VirtualKeyboard"

----------------------------------------------------------------------------
\* C20: the watcher's visibleChanged reaches no facade: the step that handles
\* it leaves every facade's type, enabled and active as they were, emits no
\* facade signal and starts no run of facade slots.
C20_VisibleReachesNoFacade ==
    [][op'.name = "Interface.visibleChanged" =>
          /\ f' = f
          /\ fsig' = NoFacadeSignals
          /\ emit' = NotEmitting]_vars

\* With two facades connected, visibleChanged(true) has been handled: the
\* watcher reports visible and has emitted visibleChanged.
C20_Witness ==
    /\ op.name = "Interface.visibleChanged" /\ op.arg /\ ~op.old
    /\ nf = 2 /\ w.visible /\ wsig.visible = 1
    /\ fsig = NoFacadeSignals /\ Idle

----------------------------------------------------------------------------
\* C21: a facade's setEnabled(x) (setActive(x)) with x different from the
\* cached value sets that facade's enabled() (active()) to x and emits its
\* enabledChanged (activeChanged) once and nothing else; with x equal it
\* changes nothing and emits nothing; either way the facade's type and other
\* flag stay as they were. And a facade's enabled() (active()) changes in no
\* step other than its own setter and its slot on the watcher's signal of
\* that property.
C21_FacadeSetterEffect ==
    [][/\ Called(FacadeSetters) =>
            LET i == op'.who
                p == op'.prop
            IN /\ f'[i][p] = op'.arg
               /\ f'[i] = [f[i] EXCEPT ![p] = op'.arg]
               /\ fsig'[i] = IF op'.arg # f[i][p]
                             THEN Bump(NoFacadeSignals[i], p)
                             ELSE NoFacadeSignals[i]
       /\ \A i \in 1..nf : \A p \in Writable :
            f'[i][p] # f[i][p] =>
                \/ Called(FacadeSetters) /\ op'.who = i /\ op'.prop = p
                \/ emit.sig = p /\ emit.next = i]_vars

\* Facade 1 of type VirtualKeyboard, enabled, has been made active by its own
\* setter and has emitted activeChanged once; the watcher's active() is false.
C21_Witness ==
    /\ op.name = "InputMethod.setActive" /\ op.who = 1 /\ op.arg /\ ~op.old
    /\ f[1] = [type |-> "VirtualKeyboard", enabled |-> TRUE, active |-> TRUE]
    /\ fsig[1] = [type |-> 0, enabled |-> 0, active |-> 1]
    /\ ~w.active

----------------------------------------------------------------------------
\* C22: with the integration and a compositor that applies every write in
\* order, a watcher setEnabled(x) hands the proxy one write of x, queued
\* behind the earlier ones, exactly when x differed from enabled() at the
\* call; the call can be made whatever is still queued; and once every write
\* and notification has been delivered, enabled() is the argument of the last
\* forwarded write (that no change of the compositor's own has followed).
C22_FireAndForget ==
    dbus =>
        /\ op.name = "Watcher.setEnabled" =>
              /\ pwrites = IF op.arg # op.old
                           THEN <<[prop |-> "enabled", val |-> op.arg]>>
                           ELSE <<>>
              /\ pwrites # <<>> =>
                    (writeQ # <<>> /\ writeQ[Len(writeQ)] = pwrites[1])
        /\ (Idle /\ inputs < MaxInputs) =>
              \A x \in BOOLEAN :
                  ENABLED (/\ WatcherSetEnabled(x)
                           /\ x # w.enabled => Len(writeQ') = Len(writeQ) + 1)
        /\ (Quiescent /\ lastWrite["enabled"] # <<>>) =>
              w.enabled = lastWrite["enabled"][1]

\* setEnabled(true) and then setEnabled(false) were forwarded; the compositor
\* applied both in order and the second confirmation has just been handled.
C22_Witness ==
    /\ dbus /\ Quiescent
    /\ lastWrite["enabled"] = <<FALSE>> /\ ~w.enabled /\ ~comp["enabled"]
    /\ op.name = "Interface.enabledChanged" /\ op.old /\ ~op.arg

----------------------------------------------------------------------------
\* C23: with the integration and a compositor that applies every write, when
\* a watcher setEnabled(v) or setActive(v) is the last thing that was asked
\* for and nothing is left to deliver, the compositor's enabled (active) is v.
C23_NoLostRequest ==
    (dbus /\ Quiescent /\ op.name \in WatcherSetters) => comp[op.prop] = op.arg

----------------------------------------------------------------------------
\* C24: whenever a facade emits typeChanged, enabledChanged or activeChanged,
\* in its slot on a watcher signal or in its own setter, the getter of that
\* property returns a value different from the one it returned before.
C24_SignalImpliesChange ==
    [][/\ emit.sig = "available" =>
            f'[emit.next].type # f[emit.next].type
       /\ emit.sig \in Writable =>
            f'[emit.next][emit.sig] # f[emit.next][emit.sig]
       /\ (Called(FacadeSetters) /\ fsig'[op'.who][op'.prop] > 0) =>
            f'[op'.who][op'.prop] # f[op'.who][op'.prop]]_vars

----------------------------------------------------------------------------
\* C25: without the integration, when a watcher setEnabled or setActive that
\* changed the value has returned, the watcher and every facade constructed
\* so far hold the new value, each facade has emitted that property's signal
\* once and no other, and no facade keeps an earlier write of its own.
C25_DegradedSynchronous ==
    (~dbus /\ Idle /\ op.name \in WatcherSetters /\ op.arg # op.old) =>
        /\ w[op.prop] = op.arg
        /\ \A i \in 1..nf :
            /\ f[i][op.prop] = op.arg
            /\ fsig[i] = Bump(NoFacadeSignals[i], op.prop)
            /\ op.prop \notin dirty[i]

\* Without the integration the watcher's setEnabled(true) has returned: the
\* facade, which had set itself to false before, reports enabled and has
\* emitted enabledChanged once.
C25_Witness ==
    /\ ~dbus /\ Idle /\ nf >= 1 /\ 1 \in touched /\ won
    /\ op.name = "Watcher.setEnabled" /\ op.arg /\ ~op.old
    /\ w.enabled /\ f[1].enabled
    /\ fsig[1] = [type |-> 0, enabled |-> 1, active |-> 0]

----------------------------------------------------------------------------
\* C26: while no notification is being delivered, any two facades on which no
\* setter was ever called report the same type(), enabled() and active().
C26_FacadesAgree ==
    Idle =>
        \A i \in 1..nf : \A j \in 1..nf :
            (i \notin touched /\ j \notin touched) => f[i] = f[j]

----------------------------------------------------------------------------
\* The facade signal that mirrors a watcher property.
FacadeSignalOf(p) == IF p = "available" THEN "type" ELSE p

\* A watcher notification: the handling of a proxy change signal, or a
\* value-changing watcher setter in a build without the integration.
Notifying ==
    \/ op.name \in InterfaceSlots
    \/ ~dbus /\ op.name \in WatcherSetters /\ op.arg # op.old

\* C27: a watcher notification ends after one emission of the watcher's
\* signal of that property and one emission of the mirroring signal by each
\* facade constructed so far (none for visible); while it runs, the next
\* facade's slot can always run and the run takes one slot per facade; and at
\* no point of it has any write been handed to the proxy.
C27_NoFeedback ==
    /\ Notifying =>
          /\ wsig = Bump(NoSignals, op.prop)
          /\ pwrites = <<>>
          /\ \A i \in Facades : \A s \in FacadeSignals :
                fsig[i][s] = IF /\ s = FacadeSignalOf(op.prop)
                                /\ i <= nf
                                /\ (Idle \/ i < emit.next)
                                /\ op.prop # "visible"
                             THEN 1 ELSE 0
    /\ ~Idle =>
          /\ Notifying /\ emit.sig = op.prop /\ emit.next \in 1..nf
          /\ ENABLED (OnAvailableChanged \/ OnEnabledChanged \/ OnActiveChanged)

\* The proxy's activeChanged has been handled with two facades: one watcher
\* activeChanged, one activeChanged per facade, nothing handed to the proxy.
C27_Witness ==
    /\ Idle /\ nf = 2 /\ op.name = "Interface.activeChanged" /\ op.arg # op.old
    /\ wsig["active"] = 1 /\ fsig[1].active = 1 /\ fsig[2].active = 1
    /\ pwrites = <<>> /\ writeQ = <<>>

====
